---- MODULE Spec2Model ----
(***************************************************************************)
(* Model of starlark/src/values/num.rs (the Num view over integers and     *)
(* floats: unpacking, conversion, equality, ordering, hashing) and of      *)
(* starlark/src/values/typing/type_compiled/globals.rs (the eval_type and  *)
(* isinstance builtins).                                                    *)
(*                                                                         *)
(* Number representations, all at the widths of the program:               *)
(*   i32   an integer in I32Min..I32Max                                     *)
(*   f64   [s, e, hi, lo]: sign bit, 11 exponent bits, and the 52 fraction  *)
(*         bits as two 26-bit halves (fraction = hi * 2^26 + lo)            *)
(*   u64   <<w3, w2, w1, w0>>: four 16-bit words, most significant first    *)
(*   big   [neg, mag]: sign and magnitude, the magnitude a sequence of bits *)
(*         most significant first, with no leading zero                     *)
(***************************************************************************)
EXTENDS Integers, Sequences, FiniteSets

\* ------------------------------------------------------------------ widths

\* i32::MAX and i32::MIN
I32Max == 2147483647
I32Min == -I32Max - 1

\* f64 layout: biased exponent of 2^0, and the all-ones exponent
ExpBias == 1023
ExpSpecial == 2047

\* width of half of the fraction field, and of a u64 word
Half == 2^26
Word == 2^16

\* ------------------------------------------------------------------ Option

None == <<>>
Some(v) == <<v>>
IsSome(o) == Len(o) = 1
Unwrap(o) == o[1]

\* ------------------------------------------------------------------ f64

F64(s, e, hi, lo) == [s |-> s, e |-> e, hi |-> hi, lo |-> lo]

\* f64::is_nan
is_nan(f) == f.e = ExpSpecial /\ (f.hi # 0 \/ f.lo # 0)

\* f64::is_infinite
is_infinite(f) == f.e = ExpSpecial /\ f.hi = 0 /\ f.lo = 0

IsZero(f) == f.e = 0 /\ f.hi = 0 /\ f.lo = 0

\* The f64 `==` operator (IEEE 754): NaN is equal to nothing, the two zeros
\* are equal, every other value is equal to itself alone.
FEq(a, b) ==
    /\ ~is_nan(a)
    /\ ~is_nan(b)
    /\ \/ IsZero(a) /\ IsZero(b)
       \/ a = b

\* magnitude order of two non-NaN floats: (e, hi, lo) lexicographically
MagLess(a, b) ==
    \/ a.e < b.e
    \/ a.e = b.e /\ a.hi < b.hi
    \/ a.e = b.e /\ a.hi = b.hi /\ a.lo < b.lo

\* The f64 `<` operator (IEEE 754) on two non-NaN floats.
FLt(a, b) ==
    /\ ~FEq(a, b)
    /\ IF a.s # b.s THEN a.s = 1
       ELSE IF a.s = 0 THEN MagLess(a, b) ELSE MagLess(b, a)

\* f64::partial_cmp: None when either side is NaN
f64_partial_cmp(a, b) ==
    IF is_nan(a) \/ is_nan(b) THEN None
    ELSE IF FEq(a, b) THEN Some("Equal")
    ELSE IF FLt(a, b) THEN Some("Less")
    ELSE Some("Greater")

\* f64::to_bits: the IEEE-754 bit pattern as a u64
to_bits(f) ==
    << f.s * 2^15 + f.e * 2^4 + (f.hi \div 2^22),
       (f.hi \div 2^6) % Word,
       (f.hi % 2^6) * 2^10 + (f.lo \div Word),
       f.lo % Word >>

\* floor(log2(a)) for a >= 1
RECURSIVE Log2(_)
Log2(a) == IF a <= 1 THEN 0 ELSE 1 + Log2(a \div 2)

\* `i as f64`: every i32 is exactly representable
I32ToF64(i) ==
    IF i = 0 THEN F64(0, 0, 0, 0)
    ELSE IF i = I32Min THEN F64(1, ExpBias + 31, 0, 0)
    ELSE LET a == IF i < 0 THEN -i ELSE i
             p == Log2(a)
             r30 == (a - 2^p) * 2^(30 - p)
         IN F64(IF i < 0 THEN 1 ELSE 0, ExpBias + p, r30 \div 2^4, (r30 % 2^4) * 2^22)

\* `f as i32`: truncates toward zero, saturates at the bounds, NaN gives 0
F64ToI32(f) ==
    IF is_nan(f) THEN 0
    ELSE IF f.e < ExpBias THEN 0
    ELSE IF f.e - ExpBias >= 31 THEN (IF f.s = 1 THEN I32Min ELSE I32Max)
    ELSE LET p == f.e - ExpBias
             m30 == 2^30 + f.hi * 2^4 + (f.lo \div 2^22)
             a == m30 \div 2^(30 - p)
         IN IF f.s = 1 THEN -a ELSE a

\* `i as u64`: sign extension of an i32 to 64 bits
I32ToU64(i) ==
    LET ext == IF i < 0 THEN Word - 1 ELSE 0
    IN << ext, ext, (i \div Word) % Word, i % Word >>

\* u64::MAX
U64Max == << Word - 1, Word - 1, Word - 1, Word - 1 >>

\* ------------------------------------------------------------------ integers

RECURSIVE BitsToNat(_)
BitsToNat(bits) ==
    IF bits = <<>> THEN 0
    ELSE 2 * BitsToNat(SubSeq(bits, 1, Len(bits) - 1)) + bits[Len(bits)]

RECURSIVE NatToBits(_)
NatToBits(a) == IF a = 0 THEN <<>> ELSE Append(NatToBits(a \div 2), a % 2)

Zeros(n) == [k \in 1..n |-> 0]

\* StarlarkIntRef::Small(i) and StarlarkIntRef::Big(b)
Small(i) == [tag |-> "Small", i |-> i]
Big(neg, mag) == [tag |-> "Big", neg |-> neg, mag |-> mag]

\* sign and magnitude of a StarlarkIntRef
IntNeg(a) == IF a.tag = "Small" THEN a.i < 0 ELSE a.neg
IntMag(a) ==
    IF a.tag = "Big" THEN a.mag
    ELSE IF a.i = I32Min THEN <<1>> \o Zeros(31)
    ELSE NatToBits(IF a.i < 0 THEN -a.i ELSE a.i)

\* order of two magnitudes: the longer is the larger, equal lengths compare
\* bit by bit from the most significant
MagCmp(m, n) ==
    IF Len(m) # Len(n) THEN (IF Len(m) < Len(n) THEN "Less" ELSE "Greater")
    ELSE LET d == {k \in 1..Len(m) : m[k] # n[k]}
         IN IF d = {} THEN "Equal"
            ELSE LET k == CHOOSE j \in d : \A l \in d : j <= l
                 IN IF m[k] < n[k] THEN "Less" ELSE "Greater"

Reverse(o) == IF o = "Less" THEN "Greater" ELSE IF o = "Greater" THEN "Less" ELSE o

\* Ord for StarlarkIntRef: the order of the integers, at arbitrary precision
IntCmp(a, b) ==
    IF IntNeg(a) # IntNeg(b) THEN (IF IntNeg(a) THEN "Less" ELSE "Greater")
    ELSE IF IntNeg(a) THEN Reverse(MagCmp(IntMag(a), IntMag(b)))
    ELSE MagCmp(IntMag(a), IntMag(b))

\* PartialEq for StarlarkIntRef
IntEq(a, b) == IntCmp(a, b) = "Equal"

\* StarlarkIntRef::to_i32: the value when it fits in 32 bits signed
IntToI32(a) ==
    IF a.tag = "Small" THEN Some(a.i)
    ELSE IF Len(a.mag) <= 31
         THEN Some(IF a.neg THEN -BitsToNat(a.mag) ELSE BitsToNat(a.mag))
    ELSE IF a.neg /\ a.mag = <<1>> \o Zeros(31) THEN Some(I32Min)
    ELSE None

\* Widening of a big integer to the nearest double (ties to even); a
\* magnitude of 2^1024 or more widens to an infinity.
BigToF64(b) ==
    LET n == Len(b.mag)
        sig == IF n >= 53 THEN SubSeq(b.mag, 1, 53) ELSE b.mag \o Zeros(53 - n)
        hi == BitsToNat(SubSeq(sig, 2, 27))
        lo == BitsToNat(SubSeq(sig, 28, 53))
        up == /\ n > 53
              /\ b.mag[54] = 1
              /\ \/ b.mag[53] = 1
                 \/ \E k \in 55..n : b.mag[k] = 1
        lo1 == IF up THEN (lo + 1) % Half ELSE lo
        c1 == up /\ lo + 1 = Half
        hi1 == IF c1 THEN (hi + 1) % Half ELSE hi
        c2 == c1 /\ hi + 1 = Half
        e == ExpBias + (n - 1) + (IF c2 THEN 1 ELSE 0)
        s == IF b.neg THEN 1 ELSE 0
    IN IF e >= ExpSpecial THEN F64(s, ExpSpecial, 0, 0) ELSE F64(s, e, hi1, lo1)

\* StarlarkIntRef::to_f64
IntToF64(a) == IF a.tag = "Small" THEN I32ToF64(a.i) ELSE BigToF64(a)

\* ------------------------------------------------------------------ Num

\* Num::Int(i) and Num::Float(f)
NumInt(i) == [tag |-> "Int", int |-> i]
NumFloat(f) == [tag |-> "Float", f |-> f]

\* From<i32> for Num
from_i32(i) == NumInt(Small(i))

\* From<f64> for Num
from_f64(f) == NumFloat(f)

\* Num::as_float
as_float(x) == IF x.tag = "Int" THEN IntToF64(x.int) ELSE x.f

\* f64_to_i32_exact with the cast taken as unsigned: a negative float casts to 0
f64_to_i32_exact_unsigned(f) ==
    LET i == IF f.s = 1 THEN 0 ELSE F64ToI32(f)
    IN IF FEq(I32ToF64(i), f) THEN Some(i) ELSE None

\* f64_to_i32_exact comparing the bit patterns instead of the values
f64_to_i32_exact_bits(f) ==
    LET i == F64ToI32(f)
    IN IF to_bits(I32ToF64(i)) = to_bits(f) THEN Some(i) ELSE None

\* Num::f64_to_i32_exact
f64_to_i32_exact(f) ==
    LET i == F64ToI32(f)
    IN IF FEq(I32ToF64(i), f) THEN Some(i) ELSE None

\* Num::as_int
as_int(x) == IF x.tag = "Int" THEN IntToI32(x.int) ELSE f64_to_i32_exact(x.f)

\* float_hash without the NaN case: each NaN hashes to its own bits
float_hash_raw_nan(f) ==
    IF is_infinite(f) THEN U64Max
    ELSE IF FEq(f, F64(0, 0, 0, 0)) THEN to_bits(F64(0, 0, 0, 0))
    ELSE to_bits(f)

\* float_hash, the local function of Num::get_hash_64
float_hash(f) ==
    IF is_nan(f) THEN << 0, 0, 0, 0 >>
    ELSE IF is_infinite(f) THEN U64Max
    ELSE IF FEq(f, F64(0, 0, 0, 0)) THEN to_bits(F64(0, 0, 0, 0))
    ELSE to_bits(f)

\* get_hash_64 without the as_int step: a float is hashed as a float
get_hash_64_no_int(x) ==
    IF x.tag = "Float" THEN float_hash(x.f)
    ELSE IF x.int.tag = "Small" THEN I32ToU64(x.int.i)
    ELSE float_hash(BigToF64(x.int))

\* get_hash_64 widening the i32 without its sign (`i as u32 as u64`)
get_hash_64_zero_extend(x) ==
    LET i == as_int(x)
    IN IF IsSome(i) THEN << 0, 0, (Unwrap(i) \div Word) % Word, Unwrap(i) % Word >>
       ELSE IF x.tag = "Float" THEN float_hash(x.f)
       ELSE IF x.int.tag = "Small" THEN I32ToU64(x.int.i)
       ELSE float_hash(BigToF64(x.int))

\* Num::get_hash_64
get_hash_64(x) ==
    LET i == as_int(x)
    IN IF IsSome(i) THEN I32ToU64(Unwrap(i))
       ELSE IF x.tag = "Float" THEN float_hash(x.f)
       ELSE IF x.int.tag = "Small" THEN I32ToU64(x.int.i)
       ELSE float_hash(BigToF64(x.int))

\* StarlarkFloat::compare_impl: the IEEE order where it is defined; all NaNs
\* are equal to each other and greater than every other float
compare_impl(a, b) ==
    LET o == f64_partial_cmp(a, b)
    IN IF IsSome(o) THEN Unwrap(o)
       ELSE IF is_nan(a) = is_nan(b) THEN "Equal"
       ELSE IF is_nan(b) THEN "Less"
       ELSE "Greater"

\* PartialEq for Num
eq(x, y) ==
    IF x.tag = "Int" /\ y.tag = "Int" THEN IntEq(x.int, y.int)
    ELSE compare_impl(as_float(x), as_float(y)) = "Equal"

\* cmp that widens both sides to double whatever their variants
cmp_widen(x, y) == compare_impl(as_float(x), as_float(y))

\* Ord for Num
cmp(x, y) ==
    IF x.tag = "Int" /\ y.tag = "Int" THEN IntCmp(x.int, y.int)
    ELSE compare_impl(as_float(x), as_float(y))

\* partial_cmp with the native float comparison, which has no answer for NaN
partial_cmp_native(x, y) ==
    IF x.tag = "Int" /\ y.tag = "Int" THEN Some(IntCmp(x.int, y.int))
    ELSE f64_partial_cmp(as_float(x), as_float(y))

\* PartialOrd for Num
partial_cmp(x, y) == Some(cmp(x, y))

\* ------------------------------------------------------------------ runtime values

\* Runtime Values: an integer, a float, and the values that are no number.
IntValue(i) == [type |-> "int", int |-> i]
FloatValue(f) == [type |-> "float", f |-> f]
BoolValue(b) == [type |-> "bool", b |-> b]
StrValue(s) == [type |-> "str", s |-> s]
NoneValue == [type |-> "NoneType"]
TypeValue(t) == [type |-> "type", of |-> t]

\* StarlarkIntRef::unpack_value: an inline or a big integer
int_unpack_value(value) == IF value.type = "int" THEN Some(value.int) ELSE None

\* Value::downcast_ref::<StarlarkFloat>
downcast_float(value) == IF value.type = "float" THEN Some(value.f) ELSE None

\* unpack_value taking a bool for the integer 0 or 1
unpack_value_bool(value) ==
    IF value.type = "bool" THEN Some(NumInt(Small(IF value.b THEN 1 ELSE 0)))
    ELSE IF value.type = "int" THEN Some(NumInt(value.int))
    ELSE IF value.type = "float" THEN Some(NumFloat(value.f))
    ELSE None

\* UnpackValue for Num
unpack_value(value) ==
    LET i == int_unpack_value(value)
        f == downcast_float(value)
    IN IF IsSome(i) THEN Some(NumInt(Unwrap(i)))
       ELSE IF IsSome(f) THEN Some(NumFloat(Unwrap(f)))
       ELSE None

\* ------------------------------------------------------------------ type predicates

\* anyhow::Result
Ok(v) == [ok |-> TRUE, val |-> v]
Err(e) == [ok |-> FALSE, err |-> e]

\* the type names a legacy string may denote
LegacyNames == {"int", "float", "str", "bool"}

\* TypeCompiled::new_with_deprecation: a type object compiles to its matcher,
\* a legacy string naming a type compiles too and emits one diagnostic, any
\* other value is a type error naming the type `type` and the value's own type.
new_with_deprecation(ty) ==
    IF ty.type = "type" THEN [res |-> Ok(ty.of), diag |-> 0]
    ELSE IF ty.type = "str" /\ ty.s \in LegacyNames THEN [res |-> Ok(ty.s), diag |-> 1]
    ELSE [res |-> Err(<<"Expected type", "type", "but got", ty.type>>), diag |-> 0]

\* TypeCompiled::matches
matches(pred, value) == value.type = pred

\* eval_type(ty)
eval_type(ty) == new_with_deprecation(ty)

\* isinstance answering false where the type expression does not compile
isinstance_recover(value, ty) ==
    LET t == new_with_deprecation(ty)
    IN IF t.res.ok THEN [res |-> Ok(matches(t.res.val, value)), diag |-> t.diag]
       ELSE [res |-> Ok(FALSE), diag |-> t.diag]

\* isinstance(value, ty): `?` returns the compile error, else Ok(matches)
isinstance(value, ty) ==
    LET c == new_with_deprecation(ty)
    IN IF c.res.ok THEN [res |-> Ok(matches(c.res.val, value)), diag |-> c.diag]
       ELSE [res |-> c.res, diag |-> c.diag]

\* ------------------------------------------------------------------ inputs

\* how far around each anchor value the inputs reach
Span == 1

Near(c) == {c + k : k \in -Span..Span}

\* the magnitude of 2^n + k, for k < 2^n
Pow2Plus(n, k) == <<1>> \o Zeros(n - Len(NatToBits(k))) \o NatToBits(k)

Ones(n) == [k \in 1..n |-> 1]

SmallInputs ==
    Near(0) \cup Near(42) \cup Near(-42)
        \cup {I32Max - k : k \in 0..Span} \cup {I32Min + k : k \in 0..Span}

\* big integers: always outside the 32-bit range
BigInputs ==
    {Big(FALSE, Pow2Plus(31, k)) : k \in 0..Span}
        \cup {Big(TRUE, Pow2Plus(31, k)) : k \in 1..(Span + 1)}
        \cup {Big(n, Pow2Plus(53, k)) : n \in BOOLEAN, k \in 0..(Span + 2)}
        \cup {Big(FALSE, Ones(54)), Big(FALSE, Pow2Plus(64, 0))}
        \cup {Big(n, Pow2Plus(1024, 0)) : n \in BOOLEAN}
        \cup {Big(FALSE, Ones(1024))}

IntInputs == {Small(i) : i \in SmallInputs} \cup BigInputs

NaNs == {F64(0, ExpSpecial, 2^25, 0), F64(1, ExpSpecial, 2^25, 0), F64(0, ExpSpecial, 0, 1)}
PosInf == F64(0, ExpSpecial, 0, 0)
NegInf == F64(1, ExpSpecial, 0, 0)
PosZero == F64(0, 0, 0, 0)
NegZero == F64(1, 0, 0, 0)

\* 0.25, 42.75 and -42.75, k + 0.5, i32::MAX + 0.5
Fractions ==
    {F64(0, ExpBias - 2, 0, 0), F64(0, ExpBias + 5, 43 * 2^19, 0), F64(1, ExpBias + 5, 43 * 2^19, 0)}
        \cup {LET f == I32ToF64(2 * k + 1) IN F64(f.s, f.e - 1, f.hi, f.lo) : k \in 0..Span}
        \cup {F64(0, ExpBias + 30, Half - 1, 31 * 2^21)}

\* the least subnormal and the greatest finite double
Extremes == {F64(0, 0, 0, 1), F64(0, ExpSpecial - 1, Half - 1, Half - 1)}

FloatInputs ==
    {I32ToF64(i) : i \in SmallInputs} \cup {BigToF64(b) : b \in BigInputs}
        \cup NaNs \cup {PosInf, NegInf, NegZero} \cup Fractions \cup Extremes

\* runtime values that are numbers, and all runtime values
NumberValues == {IntValue(i) : i \in IntInputs} \cup {FloatValue(f) : f \in FloatInputs}

ValueInputs ==
    NumberValues
        \cup {BoolValue(TRUE), BoolValue(FALSE), StrValue(""), StrValue("int"), NoneValue,
              TypeValue("int"), TypeValue("float"), TypeValue("str")}

\* operands of the three-operand checks
ChainInputs ==
    {IntValue(Small(i)) : i \in {0, -1, I32Max, I32Min}}
        \cup {IntValue(Big(FALSE, Pow2Plus(53, k))) : k \in 0..2}
        \cup {IntValue(Big(TRUE, Pow2Plus(53, 1))), IntValue(Big(FALSE, Pow2Plus(1024, 0)))}
        \cup {FloatValue(f) : f \in NaNs \cup {PosInf, NegInf, PosZero, NegZero}}
        \cup {FloatValue(BigToF64(Big(FALSE, Pow2Plus(53, 0)))), FloatValue(I32ToF64(I32Max))}
        \cup {NoneValue, TypeValue("int")}

\* ------------------------------------------------------------------ state

VARIABLES
    a, b, c,    \* the runtime values the operations are applied to
    pc,         \* "start", or the operation that has run
    r,          \* the result of that operation
    warnings    \* diagnostics written to the evaluator's warning sink

vars == <<a, b, c, pc, r, warnings>>

\* the Num views of the operands, where they are numbers
IsNum(value) == IsSome(unpack_value(value))
x == Unwrap(unpack_value(a))
y == Unwrap(unpack_value(b))
z == Unwrap(unpack_value(c))

Init ==
    /\ a \in ValueInputs
    /\ b \in ValueInputs
    /\ c = b
    /\ pc = "start"
    /\ r = None
    /\ warnings = 0

InitChain ==
    /\ a \in ChainInputs
    /\ b \in ChainInputs
    /\ c \in ChainInputs
    /\ pc = "start"
    /\ r = None
    /\ warnings = 0

Ran(op, result) ==
    /\ pc = "start"
    /\ pc' = op
    /\ r' = result
    /\ UNCHANGED <<a, b, c>>

DoUnpackValue == Ran("unpack_value", unpack_value(a)) /\ UNCHANGED warnings

DoAsFloat == IsNum(a) /\ Ran("as_float", as_float(x)) /\ UNCHANGED warnings

DoAsInt == IsNum(a) /\ Ran("as_int", as_int(x)) /\ UNCHANGED warnings

DoGetHash64 == IsNum(a) /\ Ran("get_hash_64", get_hash_64(x)) /\ UNCHANGED warnings

DoEq == IsNum(a) /\ IsNum(b) /\ Ran("eq", eq(x, y)) /\ UNCHANGED warnings

DoCmp == IsNum(a) /\ IsNum(b) /\ Ran("cmp", cmp(x, y)) /\ UNCHANGED warnings

DoPartialCmp ==
    IsNum(a) /\ IsNum(b) /\ Ran("partial_cmp", partial_cmp(x, y)) /\ UNCHANGED warnings

DoEvalType ==
    LET t == eval_type(b)
    IN Ran("eval_type", t.res) /\ warnings' = warnings + t.diag

DoIsinstance ==
    LET t == isinstance(a, b)
    IN Ran("isinstance", t.res) /\ warnings' = warnings + t.diag

Next ==
    \/ DoUnpackValue
    \/ DoAsFloat
    \/ DoAsInt
    \/ DoGetHash64
    \/ DoEq
    \/ DoCmp
    \/ DoPartialCmp
    \/ DoEvalType
    \/ DoIsinstance

Spec == Init /\ [][Next]_vars

SpecChain == InitChain /\ [][Next]_vars

\* ------------------------------------------------------------------ properties

IsFloat(n) == n.tag = "Float"
IsInt(n) == n.tag = "Int"
IsBig(n) == n.tag = "Int" /\ n.int.tag = "Big"
IsSmall(n) == n.tag = "Int" /\ n.int.tag = "Small"
IsNaN(n) == n.tag = "Float" /\ is_nan(n.f)

\* C1: two Nums that are equal have the same hash, whatever their variants.
HashEqConsistent ==
    (pc = "eq" /\ r = TRUE) => get_hash_64(x) = get_hash_64(y)

\* an equal pair of a big integer and a float has been compared
HashEqWitness ==
    /\ pc = "eq"
    /\ r = TRUE
    /\ IsBig(x)
    /\ IsFloat(y)
    /\ ~is_infinite(y.f)

\* C2: exactly one of x < y, x == y, x > y holds for every pair, NaN
\* included; cmp always answers and partial_cmp never answers None.
Trichotomy ==
    /\ pc = "partial_cmp" =>
          /\ IsSome(r)
          /\ Cardinality({k \in 1..3 : CASE k = 1 -> r = Some("Less")
                                         [] k = 2 -> eq(x, y)
                                         [] k = 3 -> r = Some("Greater")}) = 1
    /\ pc = "cmp" =>
          /\ r \in {"Less", "Equal", "Greater"}
          /\ (r = "Equal") = eq(x, y)

\* a NaN has been compared with a number that is no NaN
TrichotomyWitness ==
    /\ pc = "partial_cmp"
    /\ IsNaN(x)
    /\ ~IsNaN(y)
    /\ IsSome(r)
    /\ r # Some("Equal")

\* C3: every NaN-valued Num is equal to itself and to every other NaN-valued
\* Num, whatever the sign and payload of the NaN, and all have one hash.
NaNSelfEqual ==
    (pc = "eq" /\ IsNaN(x) /\ IsNaN(y)) =>
        /\ r = TRUE
        /\ eq(x, x)
        /\ get_hash_64(x) = get_hash_64(y)

\* two NaNs of different bit patterns have been compared
NaNWitness ==
    /\ pc = "eq"
    /\ IsNaN(x)
    /\ IsNaN(y)
    /\ x.f.s # y.f.s
    /\ r = TRUE

Zeros3 == {from_i32(0), from_f64(PosZero), from_f64(NegZero)}

\* C4: Int(Small(i)) equals Float(i as f64) and hashes as it does, for every
\* i; from(0), from(0.0) and from(-0.0) are pairwise equal with one hash.
IntFloatAgree ==
    /\ (pc = "eq" /\ IsSmall(x) /\ IsFloat(y) /\ y.f = I32ToF64(x.int.i)) =>
          r = TRUE /\ get_hash_64(x) = get_hash_64(y)
    /\ (pc = "eq" /\ x \in Zeros3 /\ y \in Zeros3) =>
          r = TRUE /\ get_hash_64(x) = get_hash_64(y)

\* i32::MIN has been compared with its double
IntFloatWitness ==
    /\ pc = "eq"
    /\ x = from_i32(I32Min)
    /\ y = from_f64(I32ToF64(I32Min))
    /\ r = TRUE

\* the float is finite, has no fractional part and lies in the i32 range:
\* read off the exponent and the fraction bits
Finite(f) == f.e # ExpSpecial
NoFraction(f) ==
    \/ IsZero(f)
    \/ /\ f.e >= ExpBias
       /\ LET k == 52 - (f.e - ExpBias)
          IN \/ k <= 0
             \/ k <= 26 /\ f.lo % 2^k = 0
             \/ k > 26 /\ f.lo = 0 /\ f.hi % 2^(k - 26) = 0
InI32Range(f) ==
    \/ f.e < ExpBias + 31
    \/ f.s = 1 /\ f.e = ExpBias + 31 /\ f.hi = 0 /\ f.lo = 0

\* C5 as stated: as_int on a Float answers Some iff the cast to i32 and back
\* reproduces the float bit for bit.
AsIntBitForBit ==
    (pc = "as_int" /\ IsFloat(x)) =>
        (IsSome(r) <=> to_bits(I32ToF64(F64ToI32(x.f))) = to_bits(x.f))

\* C5 as amended: as_int on a Float answers Some(i) iff the float is finite,
\* has no fractional part and lies in the i32 range, and then i is its value
\* (-0.0 gives 0, though the cast back is +0.0); NaN, the infinities, 42.75
\* and -42.75 give None, the doubles of i32::MIN and i32::MAX give them back.
AsIntExact ==
    (pc = "as_int" /\ IsFloat(x)) =>
        /\ IsSome(r) <=> (Finite(x.f) /\ NoFraction(x.f) /\ InI32Range(x.f))
        /\ IsSome(r) => FEq(I32ToF64(Unwrap(r)), x.f)
        /\ (is_nan(x.f) \/ is_infinite(x.f)) => r = None
        /\ x.f \in {F64(0, ExpBias + 5, 43 * 2^19, 0), F64(1, ExpBias + 5, 43 * 2^19, 0)} => r = None
        /\ x.f = F64(1, ExpBias + 31, 0, 0) => r = Some(I32Min)
        /\ x.f = F64(0, ExpBias + 30, Half - 2^4, Half - 2^22) => r = Some(I32Max)

\* as_int has answered 0 for -0.0
AsIntWitness ==
    /\ pc = "as_int"
    /\ x = from_f64(NegZero)
    /\ r = Some(0)

\* C6: unpack_value answers the Int variant for an integer of either width,
\* the Float variant for a float, and None, never an error, for the rest.
UnpackTotal ==
    pc = "unpack_value" =>
        /\ IsSome(r) <=> a.type \in {"int", "float"}
        /\ a.type = "int" => r = Some(NumInt(a.int))
        /\ a.type = "float" => r = Some(NumFloat(a.f))
        /\ a.type \notin {"int", "float"} => r = None

\* True has been unpacked, to nothing
UnpackWitness ==
    /\ pc = "unpack_value"
    /\ a = BoolValue(TRUE)
    /\ r = None

\* C7: isinstance answers a boolean only when the type expression compiles,
\* and then the boolean is matches(value); otherwise it fails with the compile
\* error unchanged, after the one compilation.
IsinstancePropagates ==
    pc = "isinstance" =>
        LET t == new_with_deprecation(b)
        IN /\ r.ok <=> t.res.ok
           /\ t.res.ok => r.val = matches(t.res.val, a)
           /\ ~t.res.ok => r = t.res
           /\ warnings = t.diag
           /\ (a = IntValue(Small(1)) /\ b = StrValue("")) =>
                 r = Err(<<"Expected type", "type", "but got", "str">>)

\* isinstance(1, "") has failed
IsinstanceWitness ==
    /\ pc = "isinstance"
    /\ a = IntValue(Small(1))
    /\ b = StrValue("")
    /\ ~r.ok

\* C8: two Int Nums are compared as integers, never as doubles: distinct
\* integers are unequal and strictly ordered, also when both widen to the
\* same double.
IntCompareExact ==
    /\ (pc = "eq" /\ IsInt(x) /\ IsInt(y)) => (r = (x.int = y.int))
    /\ (pc = "cmp" /\ IsInt(x) /\ IsInt(y)) =>
          /\ (r = "Equal") = (x.int = y.int)
          /\ r = IntCmp(x.int, y.int)
          /\ r = Reverse(cmp(y, x))

\* 2^53 and 2^53 + 1, which widen to one double, have been ordered
IntCompareWitness ==
    /\ pc = "cmp"
    /\ x = NumInt(Big(FALSE, Pow2Plus(53, 0)))
    /\ y = NumInt(Big(FALSE, Pow2Plus(53, 1)))
    /\ as_float(x) = as_float(y)
    /\ r = "Less"

Le(o) == o \in {"Less", "Equal"}

\* C9: equality is reflexive, symmetric and transitive, and <= is transitive,
\* over integers of either width and floats together.
EqCmpTransitive ==
    /\ (pc = "eq" /\ IsNum(c)) =>
          /\ eq(x, x)
          /\ r = eq(y, x)
          /\ (r /\ eq(y, z)) => eq(x, z)
    /\ (pc = "cmp" /\ IsNum(c)) =>
          ((Le(r) /\ Le(cmp(y, z))) => Le(cmp(x, z)))

\* i mod 2^64 as a u64, from the two's complement of i
SignExtended(i) ==
    IF i >= 0 THEN << 0, 0, i \div Word, i % Word >>
    ELSE << Word - 1, Word - 1, 2^15 + ((i - I32Min) \div Word), (i - I32Min) % Word >>

\* C10: the hash is (1) the exact i32, sign-extended to 64 bits, when as_int
\* gives one; (2) else for a float 0 for NaN, 2^64 - 1 for an infinity, the
\* bits of +0.0 for a zero and the raw bits otherwise; (3) else for a big
\* integer the float hash of its double, so that big integers with one
\* double have one hash.
HashRule ==
    pc = "get_hash_64" =>
        /\ IsSome(as_int(x)) => r = SignExtended(Unwrap(as_int(x)))
        /\ x = from_i32(-1) => r = U64Max
        /\ (~IsSome(as_int(x)) /\ IsFloat(x)) =>
              r = (IF is_nan(x.f) THEN << 0, 0, 0, 0 >>
                   ELSE IF is_infinite(x.f) THEN << Word - 1, Word - 1, Word - 1, Word - 1 >>
                   ELSE IF IsZero(x.f) THEN to_bits(PosZero)
                   ELSE to_bits(x.f))
        /\ (IsFloat(x) /\ IsZero(x.f)) => r = to_bits(PosZero)
        /\ IsBig(x) =>
              /\ r = float_hash(as_float(x))
              /\ (IsNum(b) /\ IsBig(y) /\ as_float(x) = as_float(y)) => r = get_hash_64(y)

\* -1 has been hashed, to 2^64 - 1
HashRuleWitness ==
    /\ pc = "get_hash_64"
    /\ x = from_i32(-1)
    /\ r = U64Max

====
